---- MODULE Spec2Model ----
(***************************************************************************)
(* Grid-world MDP engine (Robot_cls.py) and tabular Q-learning             *)
(* (q_learning.py) as a state machine.                                     *)
(*                                                                         *)
(* A grid is a sequence of rows, each a sequence of cell labels; the       *)
(* numpy access world[y, x] is world[y + 1][x + 1] here.  Coordinates are  *)
(* pairs <<x, y>> as in the source (xy[0] = x is xy[1] here).  Rewards are *)
(* the source's floats 0.0, -1.0, -5.0 written as integers.                *)
(***************************************************************************)
EXTENDS Integers, Sequences, FiniteSets, TLC

VARIABLES
    world,          \* self.world: the grid of labels
    rewards,        \* self.rewards: label -> reward (a partial mapping)
    status,         \* "none" while no Robot is being made, "new" until the
                    \* constructor's loop has run, then "ready", or the
                    \* error that ended the construction
    S,              \* self.S
    Sp,             \* self.Sp
    S_start,        \* self.S_start
    T,              \* self.T
    R,              \* self.R
    current_state,  \* self._current_state: <<>> while unset, else <<state>>
    cur,            \* the caller's state signal: <<>> or <<state>>
    ret,            \* the outcome of the last call
    pc,             \* where q_learning or get_optimal_path stands
    num_iterations, \* q_learning: the parameter
    Q,              \* q_learning: the table; get_optimal_path: the parameter
    i,              \* q_learning: the loop counter
    cur_state,      \* q_learning: the current state
    path,           \* get_optimal_path: the list of states
    path_state,     \* get_optimal_path: the state the walk stands on
    path_steps,     \* get_optimal_path: the transitions taken
    threads         \* the learners sharing the robot: what each has called
                    \* and the state signal it holds

vars == <<world, rewards, status, S, Sp, S_start, T, R, current_state, cur, ret,
          pc, num_iterations, Q, i, cur_state, path, path_state, path_steps,
          threads>>

robot == <<world, rewards, status, S, Sp, S_start, T, R>>

learner == <<pc, num_iterations, Q, i, cur_state, path, path_state, path_steps>>

----------------------------------------------------------------------------
(* Bounds of the model *)

\* obstacles placed in a generated grid
MaxObstacles == 1
\* how far outside the valid range the invalid states, coordinates and
\* actions of a call are drawn
MaxOut == 1

\* the shapes (rows, cols) of the generated grids
Shapes == {<<1, 2>>, <<2, 3>>, <<3, 3>>}

\* the shapes of the generated grids the robot is walked on
WalkShapes == {<<1, 2>>, <<2, 3>>}

----------------------------------------------------------------------------
(* Actions and outcomes *)

NORTH == 0
SOUTH == 1
WEST == 2
EAST == 3

A == <<NORTH, SOUTH, WEST, EAST>>

ActionSet == {A[k] : k \in 1..Len(A)}

nA == Len(A)

Ok(v) == [kind |-> "ok", val |-> v]

Raise(e) == [kind |-> e, val |-> <<>>]

----------------------------------------------------------------------------
(* Shape and the index maps *)

shape == <<Len(world), Len(world[1])>>

MAX_Y == shape[1]

MAX_X == shape[2]

nSp == MAX_X * MAX_Y

\* numpy.unravel_index (index, shp, order = "C") for a 2-d shape: raises
\* ValueError for an index outside [0, size)
unravel_index(index, shp) ==
    IF index < 0 \/ index >= shp[1] * shp[2]
    THEN Raise("ValueError")
    ELSE Ok(<<index \div shp[2], index % shp[2]>>)

\* numpy.ravel_multi_index (multi, shp, order = "C") with the default
\* mode = "raise": ValueError for an entry outside its dimension
ravel_multi_index(multi, shp) ==
    IF multi[1] < 0 \/ multi[1] >= shp[1] \/ multi[2] < 0 \/ multi[2] >= shp[2]
    THEN Raise("ValueError")
    ELSE Ok(multi[1] * shp[2] + multi[2])

\* index arithmetic by hand, with no range check
_state2coord_divmod(state) ==
    Ok(<<state % shape[2], state \div shape[2]>>)

_state2coord(state) ==
    LET yx == unravel_index(state, shape)
    IN IF yx.kind = "ok" THEN Ok(<<yx.val[2], yx.val[1]>>) ELSE yx

\* the coordinate is passed on as (x, y) instead of (row, column)
_coord2state_xy(xy) == ravel_multi_index(<<xy[1], xy[2]>>, shape)

_coord2state(xy) == ravel_multi_index(<<xy[2], xy[1]>>, shape)

\* world[y, x]
world_at(y, x) == world[y + 1][x + 1]

is_terminal(state) ==
    LET xy == _state2coord(state).val
    IN world_at(xy[2], xy[1]) = "T"

_is_start(state) ==
    LET xy == _state2coord(state).val
    IN world_at(xy[2], xy[1]) = "S"

_is_outside_at(xy) ==
    LET y == xy[2]
        x == xy[1]
    IN y < 0 \/ x < 0 \/ y >= MAX_Y \/ x >= MAX_X

\* the comparison misses the obstacle label
_is_obstacle_at_upper(xy) ==
    LET y == xy[2]
        x == xy[1]
    IN world_at(y, x) = "O"

_is_obstacle_at(xy) ==
    LET y == xy[2]
        x == xy[1]
    IN world_at(y, x) = "o"

\* the y axis pointing up: NORTH adds to y and SOUTH takes from it
_update_state_up(state, action) ==
    LET xy == _state2coord(state).val
    IN IF action \notin {NORTH, SOUTH, WEST, EAST}
       THEN Raise("ValueError")
       ELSE LET new_xy == CASE action = NORTH -> <<xy[1], xy[2] + 1>>
                            [] action = SOUTH -> <<xy[1], xy[2] - 1>>
                            [] action = WEST -> <<xy[1] - 1, xy[2]>>
                            [] action = EAST -> <<xy[1] + 1, xy[2]>>
            IN IF _is_outside_at(new_xy) THEN Ok(state)
               ELSE IF _is_obstacle_at(new_xy) THEN Ok(state)
               ELSE _coord2state(new_xy)

_update_state(state, action) ==
    LET xy == _state2coord(state).val
    IN IF action \notin {NORTH, SOUTH, WEST, EAST}
       THEN Raise("ValueError")
       ELSE LET new_xy == CASE action = NORTH -> <<xy[1], xy[2] - 1>>
                            [] action = SOUTH -> <<xy[1], xy[2] + 1>>
                            [] action = WEST -> <<xy[1] - 1, xy[2]>>
                            [] action = EAST -> <<xy[1] + 1, xy[2]>>
            IN IF _is_outside_at(new_xy) THEN Ok(state)
               ELSE IF _is_obstacle_at(new_xy) THEN Ok(state)
               ELSE _coord2state(new_xy)

----------------------------------------------------------------------------
(* World definitions: the presets of the source and the generated inputs *)

Labels == {".", "o", "T", "S", "x"}

\* the 4x4 world handed out whatever the name is
_create_example_world_any(type) ==
    Ok([rewards |-> ("T" :> 0) @@ ("." :> -1) @@ ("S" :> -1),
        world |-> << <<"S", ".", ".", ".">>,
                     <<".", ".", ".", ".">>,
                     <<".", ".", ".", ".">>,
                     <<".", ".", ".", "T">> >>])

_create_example_world(type) ==
    CASE type = "4x4_world" ->
           Ok([rewards |-> ("T" :> 0) @@ ("." :> -1) @@ ("S" :> -1),
               world |-> << <<"S", ".", ".", ".">>,
                            <<".", ".", ".", ".">>,
                            <<".", ".", ".", ".">>,
                            <<".", ".", ".", "T">> >>])
      [] type = "obstacles" ->
           Ok([rewards |-> ("T" :> 0) @@ ("." :> -1) @@ ("o" :> -1) @@ ("S" :> -1),
               world |-> << <<".", ".", ".", ".", ".", ".">>,
                            <<".", "o", ".", ".", "S", ".">>,
                            <<".", "o", "o", ".", ".", ".">>,
                            <<".", ".", "o", ".", ".", ".">>,
                            <<".", ".", "o", "o", "o", "o">>,
                            <<".", ".", ".", ".", ".", "T">> >>])
      [] type = "6x6_world_blocked" ->
           Ok([rewards |-> ("T" :> 0) @@ ("." :> -1) @@ ("o" :> -1) @@ ("S" :> -1),
               world |-> << <<"T", ".", ".", ".", ".", ".">>,
                            <<".", ".", ".", ".", ".", ".">>,
                            <<".", ".", "o", "o", "o", "o">>,
                            <<".", ".", "o", ".", ".", ".">>,
                            <<".", ".", "o", ".", ".", "S">>,
                            <<".", ".", "o", ".", ".", ".">> >>])
      [] type = "6x4_world_2" ->
           Ok([rewards |-> ("T" :> 0) @@ ("." :> -1) @@ ("o" :> -1) @@ ("x" :> -5)
                             @@ ("S" :> -1),
               world |-> << <<"T", ".", ".", ".">>,
                            <<"x", "x", "x", "x">>,
                            <<"x", "x", ".", "x">>,
                            <<"x", "x", ".", "x">>,
                            <<"x", "x", ".", "x">>,
                            <<"S", ".", ".", ".">> >>])
      [] OTHER -> Raise("ValueError")

WorldNames == {"4x4_world", "obstacles", "6x6_world_blocked", "6x4_world_2"}

PresetWorlds == {_create_example_world(type).val : type \in WorldNames}

\* a reward mapping over every label, with a different value for each kind
\* of cell a move can end on
FullRewards ==
    ("T" :> 0) @@ ("." :> -1) @@ ("S" :> -2) @@ ("o" :> -3) @@ ("x" :> -5)

\* the grid of shape shp with obstacles on the cells O, a terminal cell t
\* and a start cell s, the first or the last cell (an obstacle hides a
\* terminal, a terminal a start)
GenGrid(shp, O, t, s) ==
    [y \in 1..shp[1] |->
        [x \in 1..shp[2] |->
            LET c == (y - 1) * shp[2] + (x - 1)
            IN IF c \in O THEN "o"
               ELSE IF c = t THEN "T"
               ELSE IF c = s THEN "S"
               ELSE "."]]

GenGridsOf(shapes) ==
    UNION {{GenGrid(shp, O, t, s) :
                O \in {X \in SUBSET (0..(shp[1] * shp[2] - 1)) :
                          Cardinality(X) <= MaxObstacles},
                t \in 0..(shp[1] * shp[2] - 1),
                s \in {0, shp[1] * shp[2] - 1}} : shp \in shapes}

GenGrids == GenGridsOf(Shapes)

\* grids with two terminal cells, two start cells and a penalty cell
ExtraGrids ==
    { << <<"S", "x", "T">>,
         <<".", "S", "T">> >>,
      << <<"T", "o", "S">>,
         <<"x", ".", "S">>,
         <<"T", "o", ".">> >> }

LabelsOf(grid) == {grid[y][x] : y \in 1..Len(grid), x \in 1..Len(grid[1])}

Without(f, l) == [k \in (DOMAIN f) \ {l} |-> f[k]]

\* every generated grid with the full reward mapping, and with the mapping
\* short of one label the grid uses
GenWorlds ==
    UNION {{[world |-> g, rewards |-> FullRewards]}
              \cup {[world |-> g, rewards |-> Without(FullRewards, l)] :
                       l \in LabelsOf(g)} : g \in GenGrids \cup ExtraGrids}

WorldDefinitions == PresetWorlds \cup GenWorlds

\* the worlds the robot is walked on: the presets, and the extra grids and
\* the generated grids of the walk shapes with the full reward mapping
WalkWorlds ==
    PresetWorlds
      \cup {[world |-> g, rewards |-> FullRewards] :
               g \in GenGridsOf(WalkShapes) \cup ExtraGrids}

----------------------------------------------------------------------------
(* Robot.__init__ *)

States == 0..(nSp - 1)

\* range (self.nSp) as a list
StateList == [k \in 1..nSp |-> k - 1]

\* self.world[y, x] for x, y = self._state2coord (new_state_a)
LabelOfState(new_state_a) ==
    LET xy == _state2coord(new_state_a).val
    IN world_at(xy[2], xy[1])

\* the terminal branch with its commented-out line 69 in force: a terminal
\* state is its own successor
InitNewState_absorbing(state, action) ==
    IF is_terminal(state)
    THEN state
    ELSE _update_state(state, action).val

\* new_state_a of the loop body, in both branches
InitNewState(state, action) ==
    IF is_terminal(state)
    THEN _update_state(state, action).val
    ELSE _update_state(state, action).val

\* self.rewards[label]: KeyError for a label the mapping does not hold
RewardLookup(label) ==
    IF label \in DOMAIN rewards THEN Ok(rewards[label]) ELSE Raise("KeyError")

\* a reward of -1 for every step from a non-terminal state and 0 from a
\* terminal one, whatever cell the step ends on
InitReward_byOrigin(state, action) ==
    Ok(IF is_terminal(state) THEN 0 ELSE -1)

\* the lookup falls back to 0.0 for a label the mapping does not hold
InitReward_default(state, action) ==
    LET label == LabelOfState(InitNewState(state, action))
    IN IF label \in DOMAIN rewards THEN Ok(rewards[label]) ELSE Ok(0)

\* reward of the loop body, in both branches
InitReward(state, action) ==
    IF is_terminal(state)
    THEN RewardLookup(LabelOfState(InitNewState(state, action)))
    ELSE RewardLookup(LabelOfState(InitNewState(state, action)))

NonTerminal(state) == ~is_terminal(state)

\* whether the loop over the states and actions ends without an error
InitCompletes ==
    \A state \in States : \A action \in ActionSet :
        InitReward(state, action).kind = "ok"

\* the fields as the constructor leaves them
NewT == [state \in States |->
            [action \in ActionSet |-> InitNewState(state, action)]]

NewR == [state \in States |->
            [action \in ActionSet |-> InitReward(state, action).val]]

NewS == SelectSeq(StateList, NonTerminal)

\* every state appended to self.Sp inside the loop, before S is added
NewSp_all == StateList \o NewS

NewSp == SelectSeq(StateList, is_terminal) \o NewS

NewS_start == SelectSeq(StateList, _is_start)

Construct ==
    /\ status = "new"
    /\ IF InitCompletes
       THEN /\ status' = "ready"
            /\ T' = NewT
            /\ R' = NewR
            /\ S' = NewS
            /\ Sp' = NewSp
            /\ S_start' = NewS_start
       ELSE /\ status' = "KeyError"
            /\ UNCHANGED <<S, Sp, S_start, T, R>>
    /\ ret' = [op |-> "Robot", arg |-> <<>>, kind |-> status', val |-> <<>>]
    /\ UNCHANGED <<world, rewards, current_state, cur, learner, threads>>

----------------------------------------------------------------------------
(* Robot.reset and Robot.take_action *)

SeqSet(seq) == {seq[k] : k \in 1..Len(seq)}

\* the last start state taken (S_start[-1]) instead of the first
reset_last(random_initial_state) ==
    IF random_initial_state
    THEN IF S = <<>> THEN {Raise("ValueError")} ELSE {Ok(s) : s \in SeqSet(S)}
    ELSE IF S_start = <<>> THEN {Raise("IndexError")}
         ELSE {Ok(S_start[Len(S_start)])}

\* the outcomes reset can have: numpy.random.choice raises ValueError on an
\* empty list, S_start[0] raises IndexError on an empty list
reset(random_initial_state) ==
    IF random_initial_state
    THEN IF S = <<>> THEN {Raise("ValueError")} ELSE {Ok(s) : s \in SeqSet(S)}
    ELSE IF S_start = <<>> THEN {Raise("IndexError")} ELSE {Ok(S_start[1])}

Reset ==
    /\ status = "ready"
    /\ \E random_initial_state \in BOOLEAN :
         \E out \in reset(random_initial_state) :
            /\ ret' = [op |-> "reset", arg |-> <<random_initial_state>>,
                       kind |-> out.kind, val |-> out.val]
            /\ IF out.kind = "ok"
               THEN current_state' = <<out.val>> /\ cur' = <<out.val>>
               ELSE UNCHANGED <<current_state, cur>>
    /\ UNCHANGED <<robot, learner, threads>>

\* an action the table does not hold leaves the robot where it is
take_action_stay(state, action) ==
    IF state \notin DOMAIN T THEN Raise("KeyError")
    ELSE IF action \notin DOMAIN T[state] THEN Ok(<<state, 0>>)
    ELSE Ok(<<T[state][action], R[state][action]>>)

\* the lookup made from the robot's own current state (the docstring's
\* "originating from its current state") wherever one is set
take_action_current(state, action) ==
    LET from == IF current_state = <<>> THEN state ELSE current_state[1]
    IN IF from \notin DOMAIN T THEN Raise("KeyError")
       ELSE IF action \notin DOMAIN T[from] THEN Raise("KeyError")
       ELSE Ok(<<T[from][action], R[from][action]>>)

\* self.T[state][action], self.R[state][action]: a dict lookup raises
\* KeyError for a key the dict does not hold
take_action(state, action) ==
    IF state \notin DOMAIN T THEN Raise("KeyError")
    ELSE IF action \notin DOMAIN T[state] THEN Raise("KeyError")
    ELSE Ok(<<T[state][action], R[state][action]>>)

\* the action values a caller passes: the four actions and MaxOut values on
\* either side of them
ActionInputs == (-MaxOut)..(nA - 1 + MaxOut)

\* take_action applied to the state the previous call returned
TakeAction ==
    /\ status = "ready"
    /\ cur # <<>>
    /\ \E action \in ActionInputs :
         LET out == take_action(cur[1], action)
         IN /\ ret' = [op |-> "take_action", arg |-> <<cur[1], action>>,
                       kind |-> out.kind, val |-> out.val]
            /\ cur' = IF out.kind = "ok" THEN <<out.val[1]>> ELSE cur
    /\ UNCHANGED <<robot, current_state, learner, threads>>

----------------------------------------------------------------------------
(* The engine: construction, then any sequence of reset and take_action *)

NoCall == [op |-> "none", arg |-> <<>>, kind |-> "ok", val |-> <<>>]

\* neither q_learning nor get_optimal_path has been called
LearnerIdle ==
    /\ pc = "idle"
    /\ num_iterations = 0
    /\ Q = <<>>
    /\ i = 0
    /\ cur_state = 0
    /\ path = <<>>
    /\ path_state = 0
    /\ path_steps = 0

\* Robot (wd) before the constructor's loop
Unconstructed(wd) ==
    /\ world = wd.world
    /\ rewards = wd.rewards
    /\ status = "new"
    /\ S = <<>>
    /\ Sp = <<>>
    /\ S_start = <<>>
    /\ T = <<>>
    /\ R = <<>>
    /\ current_state = <<>>
    /\ cur = <<>>
    /\ ret = NoCall
    /\ threads = <<>>
    /\ LearnerIdle

Init == \E wd \in WalkWorlds : Unconstructed(wd)

Next == Construct \/ Reset \/ TakeAction

Spec == Init /\ [][Next]_vars

----------------------------------------------------------------------------
(* Construction from any world definition, and take_action looked up for   *)
(* any state and action a caller passes                                    *)

Lookup ==
    /\ status = "ready"
    /\ \E state \in States : \E action \in ActionInputs :
         LET out == take_action(state, action)
         IN ret' = [op |-> "take_action", arg |-> <<state, action>>,
                    kind |-> out.kind, val |-> out.val]
    /\ UNCHANGED <<robot, current_state, cur, learner, threads>>

InitBuild == \E wd \in WorldDefinitions : Unconstructed(wd)

NextBuild == Construct \/ Lookup

SpecBuild == InitBuild /\ [][NextBuild]_vars

----------------------------------------------------------------------------
(* The index maps called with valid and invalid arguments.  They read     *)
(* self.shape alone, which the constructor sets before its loop (the loop  *)
(* itself calls them), so the calls start from a robot whose tables are    *)
(* not built yet.                                                          *)

\* the robot as Robot (wd) leaves it
Constructed(wd) ==
    /\ world = wd.world
    /\ rewards = wd.rewards
    /\ status = "ready"
    /\ S = NewS
    /\ Sp = NewSp
    /\ S_start = NewS_start
    /\ T = NewT
    /\ R = NewR
    /\ current_state = <<>>
    /\ cur = <<>>
    /\ ret = NoCall
    /\ threads = <<>>

\* the presets, the extra grids and one grid of every generated shape
CoordWorlds ==
    PresetWorlds
      \cup {[world |-> g, rewards |-> FullRewards] : g \in ExtraGrids}
      \cup {[world |-> GenGrid(shp, {}, 0, shp[1] * shp[2] - 1),
             rewards |-> FullRewards] : shp \in Shapes}

InitCoord == \E wd \in CoordWorlds : Unconstructed(wd)

\* the state values a caller passes: the states and MaxOut values on either
\* side of them
StateInputs == (-MaxOut)..(nSp - 1 + MaxOut)

CallState2Coord ==
    /\ \E state \in StateInputs :
         LET out == _state2coord(state)
         IN ret' = [op |-> "_state2coord", arg |-> <<state>>,
                    kind |-> out.kind, val |-> out.val]
    /\ UNCHANGED <<robot, current_state, cur, learner, threads>>

CallCoord2State ==
    /\ \E x \in (-MaxOut)..(MAX_X - 1 + MaxOut) :
         \E y \in (-MaxOut)..(MAX_Y - 1 + MaxOut) :
            LET out == _coord2state(<<x, y>>)
            IN ret' = [op |-> "_coord2state", arg |-> <<x, y>>,
                       kind |-> out.kind, val |-> out.val]
    /\ UNCHANGED <<robot, current_state, cur, learner, threads>>

NextCoord == CallState2Coord \/ CallCoord2State

SpecCoord == InitCoord /\ [][NextCoord]_vars

----------------------------------------------------------------------------
(* q_learning.  The source leaves the three statements of the loop body    *)
(* open (as an exercise); they are modelled from the specification: the    *)
(* action is policy (cur_state), the step is robot.take_action, and the    *)
(* update moves Q[cur_state][action] to the sampled target                 *)
(* reward + discount_factor * max Q[new_state].                            *)

\* iteration budgets passed to q_learning
MaxIterations == 3

\* discount_factor = 1.0, the default of the signature
discount_factor == 1

\* numpy.zeros ((robot.nSp, robot.nA))
zeros == [state \in 0..(nSp - 1) |-> [action \in 0..(nA - 1) |-> 0]]

\* random_policy (state): numpy.random.choice (robot.A, 1)[0]
random_policy(state) == ActionSet

MaxOf(row) == CHOOSE v \in {row[a] : a \in DOMAIN row} :
                 \A a \in DOMAIN row : row[a] <= v

\* the new value of Q[cur_state][action]: the sampled target, taken with a
\* step size of one
QUpdate(table, reward, new_state) ==
    reward + discount_factor * MaxOf(table[new_state])

\* the condition of the while loop
LoopCondition == i <= num_iterations

QStart ==
    /\ pc = "idle"
    /\ pc' = "q_loop"
    /\ Q' = zeros
    /\ i' = 0
    /\ cur_state' = S_start[1]
    /\ UNCHANGED <<robot, threads, current_state, cur, ret, num_iterations,
                   path, path_state, path_steps>>

\* the update written to the whole row of the current state (Q[cur_state]
\* assigned instead of Q[cur_state][action])
QIterate_row ==
    /\ pc = "q_loop"
    /\ LoopCondition
    /\ i' = i + 1
    /\ \E action \in random_policy(cur_state) :
         LET out == take_action(cur_state, action)
             new_state == out.val[1]
             reward == out.val[2]
         IN /\ Q' = [Q EXCEPT ![cur_state] =
                        [a \in DOMAIN Q[cur_state] |->
                            QUpdate(Q, reward, new_state)]]
            /\ cur_state' = new_state
    /\ UNCHANGED <<robot, threads, current_state, cur, ret, pc, num_iterations,
                   path, path_state, path_steps>>

QIterate ==
    /\ pc = "q_loop"
    /\ LoopCondition
    /\ i' = i + 1
    /\ \E action \in random_policy(cur_state) :
         LET out == take_action(cur_state, action)
             new_state == out.val[1]
             reward == out.val[2]
         IN /\ Q' = [Q EXCEPT ![cur_state][action] =
                                  QUpdate(Q, reward, new_state)]
            /\ cur_state' = new_state
    /\ UNCHANGED <<robot, threads, current_state, cur, ret, pc, num_iterations,
                   path, path_state, path_steps>>

QReturn ==
    /\ pc = "q_loop"
    /\ ~LoopCondition
    /\ pc' = "q_returned"
    /\ UNCHANGED <<robot, threads, current_state, cur, ret, num_iterations, Q, i,
                   cur_state, path, path_state, path_steps>>

\* the worlds q_learning is run on, from their first start state
LearnWorlds ==
    {_create_example_world("4x4_world").val,
     _create_example_world("6x4_world_2").val}
      \cup {[world |-> g, rewards |-> FullRewards] :
               g \in ExtraGrids \cup {<< <<"S", "T">> >>}}

InitLearn ==
    /\ \E wd \in LearnWorlds : Constructed(wd)
    /\ pc = "idle"
    /\ num_iterations \in 0..MaxIterations
    /\ Q = <<>>
    /\ i = 0
    /\ cur_state = 0
    /\ path = <<>>
    /\ path_state = 0
    /\ path_steps = 0

NextLearn == QStart \/ QIterate \/ QReturn

SpecLearn == InitLearn /\ [][NextLearn]_vars

----------------------------------------------------------------------------
(* get_optimal_path.  The source has the first two statements and the      *)
(* return; its loop is left open (as an exercise) and is modelled from the  *)
(* specification: follow the action maximizing Q[state], lowest index      *)
(* first, until a terminal state is reached, and fail with                 *)
(* PathNotFoundError at an iteration cap.                                  *)

\* the iteration cap: a walk that visits no state twice takes fewer
\* transitions than there are states
PathCap == nSp

\* numpy.argmax: the lowest index among the maxima
argmax(row) ==
    CHOOSE a \in DOMAIN row :
        /\ row[a] = MaxOf(row)
        /\ \A b \in DOMAIN row : b < a => row[b] < row[a]

\* the loop goes on past the cap
PathExceeded_never == FALSE

\* the cap is reached
PathExceeded == path_steps >= PathCap

\* path = [], init_state = robot.S_start[0]
PathStart ==
    /\ pc = "idle"
    /\ pc' = "path_loop"
    /\ path' = <<>>
    /\ path_state' = S_start[1]
    /\ path_steps' = 0
    /\ UNCHANGED <<robot, threads, current_state, cur, ret, num_iterations, Q, i,
                   cur_state>>

PathStep ==
    /\ pc = "path_loop"
    /\ ~is_terminal(path_state)
    /\ ~PathExceeded
    /\ path' = Append(path, path_state)
    /\ path_state' = take_action(path_state, argmax(Q[path_state])).val[1]
    /\ path_steps' = path_steps + 1
    /\ UNCHANGED <<robot, threads, current_state, cur, ret, pc, num_iterations, Q, i,
                   cur_state>>

PathFail ==
    /\ pc = "path_loop"
    /\ ~is_terminal(path_state)
    /\ PathExceeded
    /\ pc' = "PathNotFoundError"
    /\ UNCHANGED <<robot, threads, current_state, cur, ret, num_iterations, Q, i,
                   cur_state, path, path_state, path_steps>>

PathReturn ==
    /\ pc = "path_loop"
    /\ is_terminal(path_state)
    /\ path' = Append(path, path_state)
    /\ pc' = "path_returned"
    /\ UNCHANGED <<robot, threads, current_state, cur, ret, num_iterations, Q, i,
                   cur_state, path_state, path_steps>>

\* grids of two and three cells with a start cell
PathGrids ==
    { << <<"S", "T">> >>,
      << <<"T">>, <<"S">> >>,
      << <<"S", ".", "T">> >>,
      << <<"S", "o", "T">> >>,
      << <<".", "S", ".">> >> }

PathWorlds == {[world |-> g, rewards |-> FullRewards] : g \in PathGrids}

\* the table whose maximal entries of row state are the actions best[state]
BestTable(best) ==
    [state \in 0..(nSp - 1) |->
        [action \in 0..(nA - 1) |-> IF action \in best[state] THEN 0 ELSE -1]]

\* every choice of a non-empty set of tied best actions for every state;
\* the all-zero table is the one with all four actions tied everywhere
PathTables ==
    {BestTable(best) : best \in [States -> (SUBSET ActionSet) \ {{}}]}

InitPath ==
    /\ \E wd \in PathWorlds : Constructed(wd)
    /\ pc = "idle"
    /\ num_iterations = 0
    /\ Q \in PathTables
    /\ i = 0
    /\ cur_state = 0
    /\ path = <<>>
    /\ path_state = 0
    /\ path_steps = 0

NextPath == PathStart \/ PathStep \/ PathFail \/ PathReturn

\* the call runs on: nothing suspends it
SpecPath == InitPath /\ [][NextPath]_vars /\ WF_vars(NextPath)

----------------------------------------------------------------------------
(* One robot shared by several learners.  Every learner calls reset,       *)
(* take_action, is_terminal, _is_start, _state2coord and _coord2state in   *)
(* any order, and the calls of different learners interleave.  reset is    *)
(* two steps, the assignment to self._current_state and the read of it by  *)
(* the return statement, and another learner's call can fall between them. *)

Learners == {"l1", "l2"}

ShareGrids ==
    {<< <<"S", "T">> >>,
     << <<"S", "o">>,
        <<".", "T">> >>,
     << <<"T", "S", ".">>,
        <<"o", "x", "S">> >>}

ShareWorlds == {[world |-> g, rewards |-> FullRewards] : g \in ShareGrids}

NoThread == [pc |-> "idle", cur |-> <<>>, op |-> "none", arg |-> <<>>,
             kind |-> "ok", val |-> <<>>]

Called(l, name, arg, out, signal) ==
    threads' = [threads EXCEPT ![l] =
                  [pc |-> "idle", cur |-> signal, op |-> name, arg |-> arg,
                   kind |-> out.kind, val |-> out.val]]

\* reset up to and including the assignment to self._current_state
SharedResetAssign(l) ==
    /\ threads[l].pc = "idle"
    /\ \E random_initial_state \in BOOLEAN :
         \E out \in reset(random_initial_state) :
            IF out.kind = "ok"
            THEN /\ current_state' = <<out.val>>
                 /\ threads' = [threads EXCEPT ![l] =
                       [pc |-> "reset", cur |-> threads[l].cur,
                        op |-> "reset", arg |-> <<random_initial_state>>,
                        kind |-> "ok", val |-> <<>>]]
            ELSE /\ Called(l, "reset", <<random_initial_state>>, out,
                           threads[l].cur)
                 /\ UNCHANGED current_state
    /\ UNCHANGED <<robot, cur, ret, learner>>

\* return self._current_state
SharedResetReturn(l) ==
    /\ threads[l].pc = "reset"
    /\ Called(l, "reset", threads[l].arg, Ok(current_state[1]),
              <<current_state[1]>>)
    /\ UNCHANGED <<robot, current_state, cur, ret, learner>>

SharedTakeAction(l) ==
    /\ threads[l].pc = "idle"
    /\ threads[l].cur # <<>>
    /\ \E action \in ActionSet :
         LET state == threads[l].cur[1]
             out == take_action(state, action)
         IN Called(l, "take_action", <<state, action>>, out,
                   IF out.kind = "ok" THEN <<out.val[1]>> ELSE <<state>>)
    /\ UNCHANGED <<robot, current_state, cur, ret, learner>>

\* the four read-only methods, called with the learner's state signal
SharedQuery(l) ==
    /\ threads[l].pc = "idle"
    /\ threads[l].cur # <<>>
    /\ LET state == threads[l].cur[1]
       IN \/ Called(l, "is_terminal", <<state>>, Ok(is_terminal(state)),
                    <<state>>)
          \/ Called(l, "_is_start", <<state>>, Ok(_is_start(state)),
                    <<state>>)
          \/ Called(l, "_state2coord", <<state>>, _state2coord(state),
                    <<state>>)
          \/ Called(l, "_coord2state", _state2coord(state).val,
                    _coord2state(_state2coord(state).val), <<state>>)
    /\ UNCHANGED <<robot, current_state, cur, ret, learner>>

InitShared ==
    /\ \E wd \in ShareWorlds : Constructed(wd)
    /\ LearnerIdle

\* the learners are handed the constructed robot
SharedStart ==
    /\ threads = <<>>
    /\ threads' = [l \in Learners |-> NoThread]
    /\ UNCHANGED <<robot, current_state, cur, ret, learner>>

NextShared ==
    \/ SharedStart
    \/ \E l \in DOMAIN threads : SharedResetAssign(l)
    \/ \E l \in DOMAIN threads : SharedResetReturn(l)
    \/ \E l \in DOMAIN threads : SharedTakeAction(l)
    \/ \E l \in DOMAIN threads : SharedQuery(l)

SpecShared == InitShared /\ [][NextShared]_vars

----------------------------------------------------------------------------
(* The catalog of example worlds: _create_example_world called with the    *)
(* names it knows and with other names, Robot () without a world           *)
(* definition, and Robot (Robot._create_example_world (name)) as the main  *)
(* program builds its robot.                                               *)

\* names the catalog does not hold
OtherNames == {"", "4x4", "4X4_WORLD", "obstacle", "6x6_world", "6x4_world_3",
               "YOUR_OWN_WORLD"}

TypeInputs == WorldNames \cup OtherNames

\* no Robot has been constructed
NoRobot ==
    /\ world = <<>>
    /\ rewards = <<>>
    /\ status = "none"
    /\ S = <<>>
    /\ Sp = <<>>
    /\ S_start = <<>>
    /\ T = <<>>
    /\ R = <<>>
    /\ current_state = <<>>
    /\ cur = <<>>
    /\ ret = NoCall
    /\ threads = <<>>
    /\ LearnerIdle

\* a static method: its outcome does not depend on a robot, and it is called
\* here by a program that has made its robot
CallCreateExampleWorld ==
    /\ status = "ready"
    /\ \E type \in TypeInputs :
         LET out == _create_example_world(type)
         IN ret' = [op |-> "_create_example_world", arg |-> <<type>>,
                    kind |-> out.kind, val |-> out.val]
    /\ UNCHANGED <<robot, current_state, cur, learner, threads>>

\* the constructor run on the world definition wd
RobotOf(wd, arg) ==
    /\ world' = wd.world
    /\ rewards' = wd.rewards
    /\ IF InitCompletes'
       THEN /\ status' = "ready"
            /\ T' = NewT'
            /\ R' = NewR'
            /\ S' = NewS'
            /\ Sp' = NewSp'
            /\ S_start' = NewS_start'
       ELSE /\ status' = "KeyError"
            /\ UNCHANGED <<S, Sp, S_start, T, R>>
    /\ ret' = [op |-> "Robot", arg |-> arg, kind |-> status', val |-> <<>>]

\* Robot (): world_definition is None
RobotDefault ==
    /\ status = "none"
    /\ RobotOf(_create_example_world("4x4_world").val, <<"None">>)
    /\ UNCHANGED <<current_state, cur, learner, threads>>

\* Robot (Robot._create_example_world (type)): an unknown name raises before
\* the constructor is entered
RobotNamed ==
    /\ status = "none"
    /\ \E type \in TypeInputs :
         LET out == _create_example_world(type)
         IN IF out.kind = "ok"
            THEN RobotOf(out.val, <<type>>)
            ELSE /\ ret' = [op |-> "Robot", arg |-> <<type>>,
                            kind |-> out.kind, val |-> <<>>]
                 /\ status' = out.kind
                 /\ UNCHANGED <<world, rewards, S, Sp, S_start, T, R>>
    /\ UNCHANGED <<current_state, cur, learner, threads>>

InitCatalog == NoRobot

NextCatalog == CallCreateExampleWorld \/ RobotDefault \/ RobotNamed \/ Lookup

SpecCatalog == InitCatalog /\ [][NextCatalog]_vars

----------------------------------------------------------------------------
(* The walk from the first start state: a robot made from one of the       *)
(* example worlds, reset () and then any sequence of take_action, each     *)
(* from the state the call before returned.                                *)

\* reset () with random_initial_state left at False
ResetFirst ==
    /\ status = "ready"
    /\ \E out \in reset(FALSE) :
         /\ ret' = [op |-> "reset", arg |-> <<FALSE>>,
                    kind |-> out.kind, val |-> out.val]
         /\ IF out.kind = "ok"
            THEN current_state' = <<out.val>> /\ cur' = <<out.val>>
            ELSE UNCHANGED <<current_state, cur>>
    /\ UNCHANGED <<robot, learner, threads>>

InitPreset ==
    /\ \E wd \in PresetWorlds : Constructed(wd)
    /\ LearnerIdle

NextPreset == ResetFirst \/ TakeAction

SpecPreset == InitPreset /\ [][NextPreset]_vars

----------------------------------------------------------------------------
(* The grid as the claims speak of it: rows, columns, the cell of a state  *)
(* index and the geometric target of a move                                *)

Rows == Len(world)

Cols == Len(world[1])

CellX(s) == s % Cols

CellY(s) == s \div Cols

CellLabel(s) == world[CellY(s) + 1][CellX(s) + 1]

InGrid(x, y) == 0 <= x /\ x < Cols /\ 0 <= y /\ y < Rows

DeltaX(a) == IF a = WEST THEN -1 ELSE IF a = EAST THEN 1 ELSE 0

DeltaY(a) == IF a = NORTH THEN -1 ELSE IF a = SOUTH THEN 1 ELSE 0

TargetX(s, a) == CellX(s) + DeltaX(a)

TargetY(s, a) == CellY(s) + DeltaY(a)

\* the move a from s leaves the grid or runs into an obstacle
Blocked(s, a) ==
    \/ ~InGrid(TargetX(s, a), TargetY(s, a))
    \/ world[TargetY(s, a) + 1][TargetX(s, a) + 1] = "o"

Terminals == {s \in States : CellLabel(s) = "T"}

IsTakeAction == ret.op = "take_action" /\ ret.kind = "ok"

----------------------------------------------------------------------------
(* C1 *)

\* C1: absorption.  For every terminal state t and every action a,
\* take_action(t, a) returns (t, reward of the label of t).
C1_Absorption ==
    status = "ready" =>
        \A t \in Terminals : \A a \in ActionSet :
            take_action(t, a) = Ok(<<t, rewards[CellLabel(t)]>>)

----------------------------------------------------------------------------
(* C2 *)

\* C2: boundary/obstacle no-op.  For every non-terminal state s and every
\* action a whose geometric target is outside the grid or an obstacle,
\* take_action(s, a) returns (s, reward of the label of s); an EAST or WEST
\* move at a row end never reaches the neighbouring row.
C2_BlockedNoOp ==
    status = "ready" =>
        \A s \in States \ Terminals : \A a \in ActionSet :
            Blocked(s, a) =>
                take_action(s, a) = Ok(<<s, rewards[CellLabel(s)]>>)

\* a take_action call from a non-terminal state into an obstacle, and one
\* EAST at the end of a row that is not the last, have returned
C2_Witness ==
    /\ IsTakeAction
    /\ ret.arg[1] \notin Terminals
    /\ ret.val[1] = ret.arg[1]
    /\ \/ /\ InGrid(TargetX(ret.arg[1], ret.arg[2]), TargetY(ret.arg[1], ret.arg[2]))
          /\ Blocked(ret.arg[1], ret.arg[2])
          /\ CellLabel(ret.arg[1]) # "o"
       \/ /\ ret.arg[2] = EAST
          /\ CellX(ret.arg[1]) = Cols - 1
          /\ CellY(ret.arg[1]) < Rows - 1

----------------------------------------------------------------------------
(* C3 *)

\* C3: reward consistency.  For every state s and action a, the reward
\* take_action(s, a) returns is the reward-mapping value of the label of
\* the cell of the returned next state.
C3_RewardOfNextCell ==
    status = "ready" =>
        \A s \in States : \A a \in ActionSet :
            LET out == take_action(s, a)
            IN /\ out.kind = "ok"
               /\ CellLabel(out.val[1]) \in DOMAIN rewards
               /\ out.val[2] = rewards[CellLabel(out.val[1])]

\* a take_action call has moved the robot to a cell whose label, and whose
\* reward, differ from those of the cell it left
C3_Witness ==
    /\ IsTakeAction
    /\ ret.val[1] # ret.arg[1]
    /\ CellLabel(ret.val[1]) # CellLabel(ret.arg[1])
    /\ rewards[CellLabel(ret.val[1])] # rewards[CellLabel(ret.arg[1])]
    /\ ret.val[2] = rewards[CellLabel(ret.val[1])]

----------------------------------------------------------------------------
(* C4 *)

\* C4: coordinate bijection.  _state2coord of a state s in [0, rows*cols)
\* returns a coordinate that _coord2state maps back to s, and
\* _coord2state of an in-grid coordinate (x, y) returns a state that
\* _state2coord maps back to (x, y), on square and non-square grids.
C4_Bijection ==
    /\ (ret.op = "_state2coord" /\ ret.arg[1] \in States) =>
          /\ ret.kind = "ok"
          /\ ret.val = <<CellX(ret.arg[1]), CellY(ret.arg[1])>>
          /\ _coord2state(ret.val) = Ok(ret.arg[1])
    /\ (ret.op = "_coord2state" /\ InGrid(ret.arg[1], ret.arg[2])) =>
          /\ ret.kind = "ok"
          /\ ret.val \in States
          /\ _state2coord(ret.val) = Ok(ret.arg)

\* _coord2state has returned for an in-grid coordinate with x # y of a
\* grid that is not square
C4_Witness ==
    /\ ret.op = "_coord2state"
    /\ ret.kind = "ok"
    /\ Rows # Cols
    /\ ret.arg[1] # ret.arg[2]
    /\ _state2coord(ret.val) = Ok(ret.arg)

----------------------------------------------------------------------------
(* C5 *)

\* C5: the robot is never on an obstacle cell.  After reset, in either
\* mode, and any take_action calls fed with the returned state, the state
\* of the robot never carries the label 'o'.
C5_NeverOnObstacle ==
    cur # <<>> => CellLabel(cur[1]) # "o"

----------------------------------------------------------------------------
(* C6 *)

\* C6: the learning loop of q_learning ends after exactly num_iterations
\* executions of its body (i counts them).
C6_ExactlyN ==
    pc = "q_returned" => i = num_iterations

----------------------------------------------------------------------------
(* C7 *)

\* C7: invalid action rejection.  A take_action call with an action
\* outside {NORTH, SOUTH, WEST, EAST} ends in an error, returns no
\* (next state, reward) pair and leaves T, R, S, S+ and S_start unchanged.
C7_InvalidAction ==
    [][(ret'.op = "take_action" /\ ret'.arg[2] \notin {0, 1, 2, 3}) =>
          /\ ret'.kind # "ok"
          /\ ret'.val = <<>>
          /\ UNCHANGED <<T, R, S, Sp, S_start>>]_vars

\* take_action has been called on a valid state with an invalid action
C7_Witness ==
    /\ ret.op = "take_action"
    /\ ret.arg[1] \in States
    /\ ret.arg[2] \notin {0, 1, 2, 3}
    /\ ret.kind = "KeyError"

----------------------------------------------------------------------------
(* C8 *)

\* C8: invalid state rejection.  _state2coord ends in an error for every
\* state outside [0, rows*cols), and _coord2state for every coordinate
\* with x outside [0, cols) or y outside [0, rows); neither returns a
\* wrapped or clipped value.
C8_InvalidState ==
    /\ (ret.op = "_state2coord" /\ ret.arg[1] \notin States) =>
          ret.kind = "ValueError" /\ ret.val = <<>>
    /\ (ret.op = "_coord2state" /\ ~InGrid(ret.arg[1], ret.arg[2])) =>
          ret.kind = "ValueError" /\ ret.val = <<>>

\* _coord2state has been called with an x just past the end of a row whose
\* wrapped index would be a valid state, and has raised
C8_Witness ==
    /\ ret.op = "_coord2state"
    /\ ret.arg[1] = Cols
    /\ ret.arg[2] \in 0..(Rows - 2)
    /\ ret.kind = "ValueError"

----------------------------------------------------------------------------
(* C9 *)

MissingLabel(c) == CellLabel(c) \notin DOMAIN rewards

\* the cell c has a side on the edge of the grid or on an obstacle
HasBlockedSide(c) == \E a \in ActionSet : Blocked(c, a)

----------------------------------------------------------------------------
(* C10 *)

PathDone == pc \in {"path_returned", "PathNotFoundError"}

\* C10: greedy path extraction always terminates.  For every table Q the
\* loop takes at most PathCap transitions, every turn of it takes one more
\* or leaves it, and the call ends: with a path from S_start[0] to a
\* terminal state, or at the cap with PathNotFoundError.
C10_PathTerminates ==
    /\ [][pc = "path_loop" =>
            /\ path_steps' <= PathCap
            /\ pc' = "path_loop" => path_steps' = path_steps + 1
            /\ pc' = "path_returned" =>
                  /\ path'[1] = S_start[1]
                  /\ CellLabel(path'[Len(path')]) = "T"
            /\ pc' = "PathNotFoundError" => path_steps = PathCap]_vars
    /\ <>PathDone

\* a path of more than one state has been returned for a table with ties
C10_Witness ==
    /\ pc = "path_returned"
    /\ Len(path) > 1
    /\ \E s \in States : \E a, b \in ActionSet : a # b /\ Q[s][a] = Q[s][b]

----------------------------------------------------------------------------
\* C11: once the robot is constructed and shared, whatever way the learners'
\* calls of reset, take_action, is_terminal, _is_start, _state2coord and
\* _coord2state interleave, T, R, S, Sp and S_start keep the values the
\* constructor gave them, and every take_action (s, a) returns the pair
\* (next state, reward) the constructed tables hold for (s, a), which is what
\* the learner gets when it runs alone.
C11_ReadOnlySharing ==
    threads # <<>> =>
      /\ T = NewT
      /\ R = NewR
      /\ S = NewS
      /\ Sp = NewSp
      /\ S_start = NewS_start
      /\ \A l \in Learners :
            threads[l].op = "take_action" =>
              /\ threads[l].kind = "ok"
              /\ threads[l].val = <<NewT[threads[l].arg[1]][threads[l].arg[2]],
                                    NewR[threads[l].arg[1]][threads[l].arg[2]]>>

\* one learner stands between the assignment and the return of its reset
\* while another has moved by take_action from a state that is not the
\* robot's current state
C11_Witness ==
    /\ threads # <<>>
    /\ \E l \in Learners : \E m \in Learners \ {l} :
         /\ threads[l].pc = "reset"
         /\ threads[m].op = "take_action"
         /\ threads[m].arg[1] # current_state[1]
         /\ threads[m].val[1] # threads[m].arg[1]

----------------------------------------------------------------------------
\* C12: after construction S+ holds every state index of [0, rows * cols)
\* exactly once, so |S+| = nSp; S is exactly the non-terminal states; and in
\* S+ every terminal state stands before every non-terminal state.
C12_StatePartition ==
    status = "ready" =>
      /\ \A s \in 0..(Rows * Cols - 1) :
            Cardinality({k \in 1..Len(Sp) : Sp[k] = s}) = 1
      /\ Len(Sp) = Rows * Cols
      /\ Len(Sp) = nSp
      /\ SeqSet(S) = {s \in 0..(Rows * Cols - 1) : CellLabel(s) # "T"}
      /\ Len(S) = Cardinality(SeqSet(S))
      /\ \A j \in 1..Len(Sp) : \A k \in 1..Len(Sp) :
            (CellLabel(Sp[j]) = "T" /\ CellLabel(Sp[k]) # "T") => j < k

\* a constructed world in which a terminal state has a higher index than a
\* non-terminal one, so that S+ is not in index order
C12_Witness ==
    /\ status = "ready"
    /\ \E j \in 1..(Len(Sp) - 1) :
         /\ Sp[j] > Sp[j + 1]
         /\ CellLabel(Sp[j]) = "T"
         /\ CellLabel(Sp[j + 1]) # "T"

----------------------------------------------------------------------------
\* the sides of cell s that are the grid edge or an obstacle
BlockedSides(s) == {a \in ActionSet : Blocked(s, a)}

----------------------------------------------------------------------------
\* the entries in which the table differs after the step
ChangedEntries ==
    {e \in (DOMAIN Q) \X ActionSet : Q'[e[1]][e[2]] # Q[e[1]][e[2]]}

\* the table has one row for every state of S+ and one column for every
\* action
HasShape(table) ==
    /\ DOMAIN table = 0..(Rows * Cols - 1)
    /\ \A s \in DOMAIN table : DOMAIN table[s] = 0..3

----------------------------------------------------------------------------
\* C15: _create_example_world returns a pair of a grid and a reward mapping
\* for each of the names '4x4_world', 'obstacles', '6x6_world_blocked' and
\* '6x4_world_2', and in each of them every label of the grid has a reward;
\* for every other name it fails with an error; and a Robot constructed
\* without a world definition has the grid and the rewards of '4x4_world'.
C15_WorldCatalog ==
    /\ ret.op = "_create_example_world" =>
         IF ret.arg[1] \in {"4x4_world", "obstacles", "6x6_world_blocked",
                            "6x4_world_2"}
         THEN /\ ret.kind = "ok"
              /\ DOMAIN ret.val = {"world", "rewards"}
              /\ Len(ret.val.world) > 0
              /\ LabelsOf(ret.val.world) \subseteq DOMAIN ret.val.rewards
         ELSE ret.kind = "ValueError"
    /\ (ret.op = "Robot" /\ ret.arg = <<"None">>) =>
         /\ status = "ready"
         /\ world = _create_example_world("4x4_world").val.world
         /\ rewards = _create_example_world("4x4_world").val.rewards
         /\ Rows = 4
         /\ Cols = 4

\* a name the catalog does not hold has been asked for, on a robot made
\* without a world definition
C15_Witness ==
    /\ ret.op = "_create_example_world"
    /\ ret.arg[1] \notin WorldNames
    /\ ret.kind = "ValueError"
    /\ status = "ready"
    /\ Rows = 4

----------------------------------------------------------------------------
\* C16: for a non-terminal state s at (x, y) = (s mod cols, s div cols) and
\* an action a whose target cell (x + dx, y + dy) is inside the grid and no
\* obstacle, take_action (s, a) returns the next state
\* (y + dy) * cols + (x + dx): s - cols for NORTH, s + cols for SOUTH, s - 1
\* for WEST and s + 1 for EAST, on square and on non-square grids.
C16_UnblockedMove ==
    (/\ IsTakeAction
     /\ ret.arg[1] \notin Terminals
     /\ ret.arg[2] \in ActionSet
     /\ ~Blocked(ret.arg[1], ret.arg[2])) =>
       LET s == ret.arg[1]
           a == ret.arg[2]
           x == s % Cols
           y == s \div Cols
       IN /\ ret.val[1] = (y + DeltaY(a)) * Cols + (x + DeltaX(a))
          /\ ret.val[1] = CASE a = NORTH -> s - Cols
                            [] a = SOUTH -> s + Cols
                            [] a = WEST -> s - 1
                            [] a = EAST -> s + 1

\* a move to the north from a non-terminal state of a non-square grid with
\* more than one row, into a free cell
C16_Witness ==
    /\ IsTakeAction
    /\ Rows # Cols
    /\ ret.arg[1] \notin Terminals
    /\ ret.arg[2] = NORTH
    /\ ~Blocked(ret.arg[1], ret.arg[2])
    /\ ret.val[1] = ret.arg[1] - Cols

----------------------------------------------------------------------------
\* the states whose cell is labelled 'S'
StartCells == {s \in 0..(Rows * Cols - 1) : CellLabel(s) = "S"}

\* C17: after construction S_start holds exactly the states whose cell label
\* is 'S', in ascending order of state index; and where there is such a
\* state, reset () with random_initial_state = False sets the current state
\* to S_start[0], the start cell of lowest index, and returns it, whatever
\* calls of reset and take_action came before.
C17_StartAndReset ==
    status = "ready" =>
      /\ SeqSet(S_start) = StartCells
      /\ \A j \in 1..Len(S_start) : \A k \in 1..Len(S_start) :
            j < k => S_start[j] < S_start[k]
      /\ (ret.op = "reset" /\ ret.arg = <<FALSE>> /\ StartCells # {}) =>
            /\ ret.kind = "ok"
            /\ ret.val = S_start[1]
            /\ \A s \in StartCells : ret.val <= s
            /\ current_state = <<ret.val>>
            /\ cur = <<ret.val>>

\* reset (False) has returned the first of two start cells
C17_Witness ==
    /\ status = "ready"
    /\ ret.op = "reset"
    /\ ret.arg = <<FALSE>>
    /\ Cardinality(StartCells) = 2
    /\ ret.val = S_start[1]
    /\ ret.val < S_start[2]

----------------------------------------------------------------------------
\* the states the transition table leads to from the states of seen, in any
\* number of steps
RECURSIVE ReachableFrom(_)
ReachableFrom(seen) ==
    LET more == seen \cup {T[s][a] : s \in seen, a \in ActionSet}
    IN IF more = seen THEN seen ELSE ReachableFrom(more)

IsPreset(type) == world = _create_example_world(type).val.world

\* the cells with x in {3, 4, 5} and y in {3, 4, 5}
InBlock(s) == CellX(s) \in {3, 4, 5} /\ CellY(s) \in {3, 4, 5}

\* C18: in '4x4_world', 'obstacles' and '6x4_world_2' some terminal state is
\* reachable from S_start[0] by take_action steps; in '6x6_world_blocked'
\* S_start[0] is state 29 and every state reachable from it lies in the block
\* of cells with x and y in {3, 4, 5}, so that no terminal state is reached
\* by any sequence of actions, a greedy one under any Q included.
C18_PresetReachability ==
    /\ (IsPreset("4x4_world") \/ IsPreset("obstacles") \/ IsPreset("6x4_world_2"))
         => ReachableFrom({S_start[1]}) \cap Terminals # {}
    /\ IsPreset("6x6_world_blocked") =>
         /\ S_start[1] = 29
         /\ \A s \in ReachableFrom({S_start[1]}) : InBlock(s)
         /\ ReachableFrom({S_start[1]}) \cap Terminals = {}
         /\ cur # <<>> => InBlock(cur[1]) /\ cur[1] \notin Terminals

\* in '6x6_world_blocked' the robot, walked from the start state to the
\* corner (3, 3) of the block, has been held there by the obstacle to its
\* west
C18_Witness ==
    /\ IsPreset("6x6_world_blocked")
    /\ IsTakeAction
    /\ ret.arg = <<21, WEST>>
    /\ ret.val[1] = 21
    /\ cur = <<21>>

====
